---------------------------- MODULE Spec2Model ----------------------------
(***************************************************************************)
(* Project lifecycle of the Cardozi CRM agent backend.                     *)
(*                                                                         *)
(*   backend/src/api/main.py     the API surface: create, get, start,      *)
(*                               stop, delete (one request = one action)   *)
(*   backend/src/worker/tasks.py the Celery task run_agent_workflow and    *)
(*                               its store helpers (one store transaction  *)
(*                               or gateway call = one action)             *)
(*   backend/src/domain/models.py the columns the ORM maps                  *)
(*                                                                         *)
(* API requests, worker attempts of several tasks and the in-process       *)
(* simulation interleave freely: every helper opens its own session and    *)
(* commits on its own, so the store transaction is the atomic step.        *)
(***************************************************************************)
EXTENDS Integers, Sequences, FiniteSets, TLC

\* ---------------------------------------------------------------- bounds
\* Number of project ids uuid4 hands out in a behaviour.
MaxProjects == 2
\* Number of start calls that begin an execution (task or simulation).
MaxTasks == 2
\* Number of times the store raises inside a worker helper.
MaxFaults == 1
\* A behaviour is explored under a load: how many projects, executions and
\* store faults it may use, at least one project and one execution, MaxLoad
\* in all.
MaxLoad == 3

\* Number of executions in flight in the behaviours explored for the
\* properties that need the worker's fairness.
MaxFairTasks == 1

Loads ==
    {b \in [projects : 1..MaxProjects, tasks : 1..MaxTasks, faults : 0..MaxFaults] :
        b.projects + b.tasks + b.faults = MaxLoad}

\* ------------------------------------------------------- program constants
\* tasks.py:53  `if self.request.retries < 3`
RetryLimit == 3
\* tasks.py:54  `self.retry(countdown=60, max_retries=3, exc=exc)`
MaxRetries == 3

PIDS == 1..MaxProjects
TIDS == 1..MaxTasks

\* Python None in a nullable column or attribute.
Null == "null"

\* -------------------------------------------------------------- the store
\* domain/models.py: the columns of `projects` the ORM class maps.  An
\* attribute assigned on an instance under any other name is a plain Python
\* attribute: the unit of work never sees it and commit() writes nothing.
MappedColumns == {"status", "system_prompt", "output_schema", "auth_cookies",
      "live_stream_url", "active_session_id"}

\* The result record of a run (tasks.py:116-122 and 128-134); NoResult is the
\* NULL of the last_result column.
NoResult == [status |-> Null, session_id |-> Null, stream_url |-> Null,
             output |-> <<>>, at |-> Null]

\* A row of `projects`.  last_result and last_run_at are the columns
\* database.py's run_migrations adds to the table.
NewRow(prompt, schema) ==
    [status |-> "INITIALIZING", system_prompt |-> prompt, output_schema |-> schema,
     auth_cookies |-> Null, live_stream_url |-> Null, active_session_id |-> Null,
     last_result |-> NoResult, last_run_at |-> Null]

\* session.commit() after attribute assignments `attrs` on a loaded row: the
\* UPDATE carries the mapped columns only.
Flush(row, attrs) ==
    [c \in DOMAIN row |->
        IF c \in DOMAIN attrs /\ c \in MappedColumns THEN attrs[c] ELSE row[c]]

Statuses == {"INITIALIZING", "IDLE", "RUNNING", "BLOCKED"}

\* Bodies of POST /projects/ (ProjectCreate, main.py:30-32): system_prompt is
\* any str, the empty one included; output_schema is optional.
Bodies == {[system_prompt |-> "", output_schema |-> Null],
           [system_prompt |-> "extract invoice totals", output_schema |-> "schema"]}


\* ------------------------------------------------------ gateway and output
\* str.upper() on the letters (tasks.py:113); any other character is kept.
LowerAlpha == <<"a","b","c","d","e","f","g","h","i","j","k","l","m",
                "n","o","p","q","r","s","t","u","v","w","x","y","z">>
UpperAlpha == <<"A","B","C","D","E","F","G","H","I","J","K","L","M",
                "N","O","P","Q","R","S","T","U","V","W","X","Y","Z">>

UpperChar(c) ==
    IF \E i \in 1..Len(LowerAlpha) : LowerAlpha[i] = c
    THEN UpperAlpha[CHOOSE i \in 1..Len(LowerAlpha) : LowerAlpha[i] = c]
    ELSE c

Upper(s) == [i \in 1..Len(s) |-> UpperChar(s[i])]

\* Python's `needle in hay` on strings.
Contains(hay, needle) ==
    \E i \in 0..(Len(hay) - Len(needle)) :
        \A j \in 1..Len(needle) : hay[i + j] = needle[j]

Sentinel == <<"B","L","O","C","K","E","D">>

\* The texts task.complete() hands back as `output`.
NoOutput == <<>>
OutDone == <<"d","o","n","e">>
OutCaptcha == <<"B","L","O","C","K","E","D",":"," ","c","a","p","t","c","h","a">>
OutMixed == <<"i","s"," ","B","l","o","c","k","e","d","!">>
OutNearMiss == <<"B","L","O","C","K"," ","E","D">>
Outputs == {OutDone, OutCaptcha, OutMixed, OutNearMiss}

\* tasks.py:113  `'BLOCKED' in str(output).upper()`
IsBlocked(o) == Contains(Upper(o), Sentinel)

\* getattr(task, 'live_url', None) or getattr(task, 'stream_url', None)
StreamUrls == {Null, "https://live"}

\* str(uuid.uuid4()) in an attempt of task t (tasks.py:76).
SessionId(t) == "session-" \o ToString(t)

\* ------------------------------------------------------------------ state
VARIABLES
    store,      \* projects table: project id -> row, for the ids that exist
    nextId,     \* the next id uuid4 hands to create
    tasks,      \* task id -> the run (Celery task or simulation) in progress
    nextTid,    \* the next task id
    faults,     \* the number of times the store has raised in a worker helper
    deleted,    \* history: ids a delete call removed
    load        \* the load this behaviour is explored under

vars == <<store, nextId, tasks, nextTid, faults, deleted, load>>

NoExc == [kind |-> "none", at |-> 0]

NoRun == [pid |-> 0, kind |-> "none", pc |-> "none", retries |-> 0, attempts |-> 0,
          stream_url |-> Null, output |-> NoOutput, exc |-> NoExc,
          alone |-> TRUE, dbok |-> TRUE, lost |-> FALSE]

\* A run as run_agent_workflow.delay(project_id) enqueues it.
NewRun(p, kind, alone) ==
    [NoRun EXCEPT !.pid = p, !.kind = kind,
                  !.pc = IF kind = "celery" THEN "queued" ELSE "sleep",
                  !.alone = alone]

Exists(p) == p \in DOMAIN store

RunsOf(p) == {t \in DOMAIN tasks : tasks[t].pid = p}

\* History bookkeeping: a write helper of a run that selects no row (the project
\* was deleted) marks the run as having lost a write.
Lost(r, fault) == r.lost \/ (~fault /\ ~Exists(r.pid))

\* History bookkeeping: a stop, delete or second run on project p marks every
\* run of p in progress as no longer alone.
Disturb(p) ==
    [t \in DOMAIN tasks |->
        IF tasks[t].pid = p THEN [tasks[t] EXCEPT !.alone = FALSE] ELSE tasks[t]]

Drop(f, k) == [x \in DOMAIN f \ {k} |-> f[x]]

Init ==
    /\ store = <<>>
    /\ nextId = 1
    /\ tasks = <<>>
    /\ nextTid = 1
    /\ faults = 0
    /\ deleted = {}
    /\ load \in Loads

\* ---------------------------------------------------------- API surface
\* HTTP status codes of the responses.
Ok == 200
InvalidState == 400
NotFound == 404
ServerError == 500

\* ProjectResponse(...) as create, list and get build it (main.py:82-94,
\* 130-142): the attributes read off the ORM instance.
ResponseAttrs == {"status", "system_prompt", "output_schema", "auth_cookies",
      "live_stream_url", "active_session_id", "last_result", "last_run_at"}

\* Reading an attribute the class does not define raises AttributeError,
\* which the framework answers with 500.
ResponseCode == IF ResponseAttrs \subseteq MappedColumns THEN Ok ELSE ServerError

\* POST /projects/  (main.py:65-94).  ProjectCreate takes any str as
\* system_prompt; the row is committed before the response is built.
create_project(body) ==
    /\ nextId <= load.projects
    /\ store' = (nextId :> NewRow(body.system_prompt, body.output_schema)) @@ store
    /\ nextId' = nextId + 1
    /\ UNCHANGED <<tasks, nextTid, faults, deleted, load>>

\* GET /projects/{id}  (main.py:121-142): the response on store s, the status
\* code and, when the projection is built, its fields.
GetResponse(s, p) ==
    IF p \notin DOMAIN s
    THEN [code |-> NotFound, system_prompt |-> Null, output_schema |-> Null]
    ELSE IF ResponseCode # Ok
    THEN [code |-> ResponseCode, system_prompt |-> Null, output_schema |-> Null]
    ELSE [code |-> Ok, system_prompt |-> s[p].system_prompt,
          output_schema |-> s[p].output_schema]

\* GET /projects/{id}  (main.py:121-142): the status code returned.
get_project(p) == GetResponse(store, p).code

\* main.py:160  `if project.status == "RUNNING"`
AlreadyRunningNever(row) == FALSE

AlreadyRunning(row) == row.status = "RUNNING"

\* POST /projects/{id}/start  (main.py:151-199): the response.  brokerUp is
\* whether run_agent_workflow.delay reaches the broker.
start_response(p, brokerUp) ==
    IF ~Exists(p) THEN [code |-> NotFound, mode |-> "none"]
    ELSE IF AlreadyRunning(store[p]) THEN [code |-> InvalidState, mode |-> "none"]
    ELSE IF brokerUp THEN [code |-> Ok, mode |-> "enqueued"]
    ELSE [code |-> Ok, mode |-> "simulation"]

\* POST /projects/{id}/start  (main.py:151-199): the state change.  When
\* delay raises, the handler commits RUNNING itself and spawns
\* simulate_workflow.
start_project(p, brokerUp) ==
    LET mode == start_response(p, brokerUp).mode IN
    IF mode = "enqueued" THEN
        /\ nextTid <= load.tasks
        /\ tasks' = (nextTid :> NewRun(p, "celery", RunsOf(p) = {})) @@ Disturb(p)
        /\ nextTid' = nextTid + 1
        /\ UNCHANGED <<store, nextId, faults, deleted, load>>
    ELSE IF mode = "simulation" THEN
        /\ nextTid <= load.tasks
        /\ store' = [store EXCEPT ![p] = Flush(@, [status |-> "RUNNING"])]
        /\ tasks' = (nextTid :> NewRun(p, "sim", FALSE)) @@ Disturb(p)
        /\ nextTid' = nextTid + 1
        /\ UNCHANGED <<nextId, faults, deleted, load>>
    ELSE
        UNCHANGED vars

\* main.py:212-214
StopAttrsKeepSession == [status |-> "IDLE", live_stream_url |-> Null]

StopAttrsWipeConfig == [status |-> "IDLE", active_session_id |-> Null,
                        live_stream_url |-> Null, system_prompt |-> Null]

StopAttrsKeepStream == [status |-> "IDLE", active_session_id |-> Null]

StopAttrs == [status |-> "IDLE", active_session_id |-> Null, live_stream_url |-> Null]

\* POST /projects/{id}/stop  (main.py:202-220): the status code returned.
stop_response(p) == IF ~Exists(p) THEN NotFound ELSE Ok

\* POST /projects/{id}/stop  (main.py:202-220): the state change.
stop_project(p) ==
    IF Exists(p) THEN
        /\ store' = [store EXCEPT ![p] = Flush(@, StopAttrs)]
        /\ tasks' = Disturb(p)
        /\ UNCHANGED <<nextId, nextTid, faults, deleted, load>>
    ELSE
        UNCHANGED vars

\* main.py:232-233  `await db.delete(project); await db.commit()`
RemoveRowUncommitted(s, p) == s

RemoveRow(s, p) == Drop(s, p)

\* DELETE /projects/{id}  (main.py:223-235): the status code returned.
delete_response(p) == IF ~Exists(p) THEN NotFound ELSE Ok

\* DELETE /projects/{id}  (main.py:223-235): the state change.
delete_project(p) ==
    IF Exists(p) THEN
        /\ store' = RemoveRow(store, p)
        /\ tasks' = Disturb(p)
        /\ deleted' = deleted \cup {p}
        /\ UNCHANGED <<nextId, nextTid, faults, load>>
    ELSE
        UNCHANGED vars

\* simulate_workflow (main.py:181-189), the coroutine start spawns when the
\* enqueue raised: after the sleep it sets IDLE and a simulated session id.
simulate_workflow(t) ==
    /\ t \in DOMAIN tasks
    /\ tasks[t].kind = "sim"
    /\ LET p == tasks[t].pid IN
        /\ store' = IF Exists(p)
                    THEN [store EXCEPT ![p] = Flush(@, [status |-> "IDLE",
                                    active_session_id |-> "simulated-session"])]
                    ELSE store
        /\ tasks' = Drop(Disturb(p), t)
    /\ UNCHANGED <<nextId, nextTid, faults, deleted, load>>

\* ------------------------------------------------- worker: store helpers
\* Each helper runs one session in a try/except that logs and swallows every
\* exception; `fault` is the store raising inside it.

\* _update_project_status (tasks.py:150-166)
UpdateProjectStatusUncommitted(s, p, status, fault) == s

UpdateProjectStatusFailed(s, p, status, fault) ==
    IF ~fault /\ p \in DOMAIN s
    THEN [s EXCEPT ![p] = Flush(@, [status |->
                            IF status = "BLOCKED" THEN "FAILED" ELSE status])]
    ELSE s

UpdateProjectStatus(s, p, status, fault) ==
    IF ~fault /\ p \in DOMAIN s
    THEN [s EXCEPT ![p] = Flush(@, [status |-> status])]
    ELSE s

\* _update_project_session (tasks.py:169-183)
UpdateProjectSessionUpsert(s, p, session_id, stream_url, fault) ==
    IF fault THEN s
    ELSE (p :> Flush(IF p \in DOMAIN s THEN s[p] ELSE NewRow(Null, Null),
                     [active_session_id |-> session_id,
                      live_stream_url |-> stream_url])) @@ s

UpdateProjectSessionUncommitted(s, p, session_id, stream_url, fault) == s

UpdateProjectSession(s, p, session_id, stream_url, fault) ==
    IF ~fault /\ p \in DOMAIN s
    THEN [s EXCEPT ![p] = Flush(@, [active_session_id |-> session_id,
                                    live_stream_url |-> stream_url])]
    ELSE s

\* _get_project (tasks.py:139-147): whether it returns a row; None when no row
\* has the id, and None when the store raised.
GetProjectAlways(s, p, fault) == TRUE

GetProject(s, p, fault) == ~fault /\ p \in DOMAIN s

\* result_data (tasks.py:116-122, 128-134)
ResultData(status, session_id, stream_url, output, stamp) ==
    [status |-> status, session_id |-> session_id, stream_url |-> stream_url,
     output |-> output, at |-> stamp]

\* _update_project_result (tasks.py:186-200): assigns project.last_result and
\* project.last_run_at, then commits.
UpdateProjectResultIntoSchema(s, p, result_data, fault) ==
    IF ~fault /\ p \in DOMAIN s
    THEN [s EXCEPT ![p] = Flush(@, [output_schema |-> result_data.status])]
    ELSE s

UpdateProjectResult(s, p, result_data, fault) ==
    IF ~fault /\ p \in DOMAIN s
    THEN [s EXCEPT ![p] = Flush(@, [last_result |-> result_data,
                                    last_run_at |-> result_data.at])]
    ELSE s

\* datetime.utcnow() at a result write of task t.
Stamp(t) == "utc-" \o ToString(t)

\* tasks.py:53  `if self.request.retries < 3`
RetriesRemain(retries) == retries < RetryLimit

\* Task.retry(max_retries=3): past max_retries it raises instead of
\* rescheduling (tasks.py:54).
RetryAllowed(retries) == retries < MaxRetries

\* tasks.py:53-60: what the except branch does after its status write.
DispositionOneMore(r) ==
    IF r.retries < RetryLimit + 1 THEN "retry" ELSE "return failed"

DispositionNoRetry(r) == "return failed"

DispositionAlwaysRetry(r) == "retry"

Disposition(r) ==
    IF RetriesRemain(r.retries)
    THEN IF RetryAllowed(r.retries) THEN "retry" ELSE "raise"
    ELSE "return failed"

\* tasks.py:56-60: the failed summary.
FailedSummary(r) == [status |-> "failed", project_id |-> r.pid, error |-> r.exc]

\* Whether the store may raise in the helper about to run.
FaultChoices == IF faults < load.faults THEN BOOLEAN ELSE {FALSE}

Raised(fault) == faults' = IF fault THEN faults + 1 ELSE faults

Run(t) == tasks[t]

Step(t, run) == [tasks EXCEPT ![t] = run]

Celery(t, pc) == t \in DOMAIN tasks /\ tasks[t].kind = "celery" /\ tasks[t].pc = pc

\* ------------------------------------------------- worker: the workflow
\* tasks.py:18-22: a worker takes the task (first delivery, or a retry whose
\* countdown has passed) and writes RUNNING.
attempt_start(t) ==
    /\ Celery(t, "queued")
    /\ \E fault \in FaultChoices :
        /\ Raised(fault)
        /\ store' = UpdateProjectStatus(store, Run(t).pid, "RUNNING", fault)
        /\ tasks' = Step(t, [Run(t) EXCEPT !.pc = "fetch",
                        !.attempts = @ + 1, !.dbok = @ /\ ~fault,
                        !.lost = Lost(Run(t), fault)])
    /\ UNCHANGED <<nextId, nextTid, deleted, load>>

\* tasks.py:25-27: _get_project returns None when the row is gone or the
\* store raised (tasks.py:139-147); the task then raises "not found".
fetch_project(t) ==
    /\ Celery(t, "fetch")
    /\ \E fault \in FaultChoices :
        /\ Raised(fault)
        /\ tasks' = Step(t,
            IF ~GetProject(store, Run(t).pid, fault)
            THEN [Run(t) EXCEPT !.pc = "failed",
                     !.exc = [kind |-> "not found", at |-> Run(t).attempts],
                     !.dbok = @ /\ ~fault]
            ELSE [Run(t) EXCEPT !.pc = "create"])
    /\ UNCHANGED <<store, nextId, nextTid, deleted, load>>

\* tasks.py:73-99: client.tasks.create_task returns a handle, with or without
\* a stream URL, or raises.
create_task(t) ==
    /\ Celery(t, "create")
    /\ \E ok \in BOOLEAN, url \in StreamUrls :
        tasks' = Step(t,
            IF ok
            THEN [Run(t) EXCEPT !.pc = "session", !.stream_url = url]
            ELSE [Run(t) EXCEPT !.pc = "failed",
                     !.exc = [kind |-> "create_task", at |-> Run(t).attempts]])
    /\ UNCHANGED <<store, nextId, nextTid, faults, deleted, load>>

\* tasks.py:102
update_session(t) ==
    /\ Celery(t, "session")
    /\ \E fault \in FaultChoices :
        /\ Raised(fault)
        /\ store' = UpdateProjectSession(store, Run(t).pid,
                        SessionId(t), Run(t).stream_url, fault)
        /\ tasks' = Step(t, [Run(t) EXCEPT !.pc = "wait", !.dbok = @ /\ ~fault,
                                          !.lost = Lost(Run(t), fault)])
    /\ UNCHANGED <<nextId, nextTid, deleted, load>>

\* tasks.py:109-112: task.complete() returns the output or raises.
complete(t) ==
    /\ Celery(t, "wait")
    /\ \E ok \in BOOLEAN, out \in Outputs :
        tasks' = Step(t,
            IF ok
            THEN [Run(t) EXCEPT !.pc = "inspect", !.output = out]
            ELSE [Run(t) EXCEPT !.pc = "failed",
                     !.exc = [kind |-> "complete", at |-> Run(t).attempts]])
    /\ UNCHANGED <<store, nextId, nextTid, faults, deleted, load>>

\* tasks.py:113-115 (marker found: write BLOCKED) and 126-135 (no marker:
\* write the COMPLETED result).
handle_output(t) ==
    /\ Celery(t, "inspect")
    /\ \E fault \in FaultChoices :
        LET r == Run(t) IN
        /\ Raised(fault)
        /\ IF IsBlocked(r.output) THEN
              /\ store' = UpdateProjectStatus(store, r.pid, "BLOCKED", fault)
              /\ tasks' = Step(t, [r EXCEPT !.pc = "blocked_result",
                                            !.dbok = @ /\ ~fault,
                                            !.lost = Lost(r, fault)])
           ELSE
              /\ store' = UpdateProjectResult(store, r.pid,
                            ResultData("COMPLETED", SessionId(t), r.stream_url,
                                       r.output, Stamp(t)),
                            fault)
              /\ tasks' = Step(t, [r EXCEPT !.pc = "finish", !.dbok = @ /\ ~fault,
                                            !.lost = Lost(r, fault)])
    /\ UNCHANGED <<nextId, nextTid, deleted, load>>

\* tasks.py:116-124
blocked_result(t) ==
    /\ Celery(t, "blocked_result")
    /\ \E fault \in FaultChoices :
        LET r == Run(t) IN
        /\ Raised(fault)
        /\ store' = UpdateProjectResult(store, r.pid,
                        ResultData("BLOCKED", SessionId(t), r.stream_url,
                                   r.output, Stamp(t)),
                        fault)
        /\ tasks' = Step(t, [r EXCEPT !.pc = "finish", !.dbok = @ /\ ~fault,
                                      !.lost = Lost(r, fault)])
    /\ UNCHANGED <<nextId, nextTid, deleted, load>>

\* tasks.py:37-46: _execute_browser_workflow returned (either result_data);
\* the task writes IDLE and returns the completed summary.
finish(t) ==
    /\ Celery(t, "finish")
    /\ \E fault \in FaultChoices :
        /\ Raised(fault)
        /\ store' = UpdateProjectStatus(store, Run(t).pid, "IDLE", fault)
        /\ tasks' = Drop(tasks, t)
    /\ UNCHANGED <<nextId, nextTid, deleted, load>>

\* tasks.py:48-60: the except branch.  It writes BLOCKED, then either
\* reschedules the task (retries + 1, the attempt's locals gone) or ends it:
\* with the failed summary, or with the exception retry() raises.
handle_failure(t) ==
    /\ Celery(t, "failed")
    /\ \E fault \in FaultChoices :
        LET r == Run(t) IN
        /\ Raised(fault)
        /\ store' = UpdateProjectStatus(store, r.pid, "BLOCKED", fault)
        /\ tasks' = IF Disposition(r) = "retry"
                    THEN Step(t, [r EXCEPT !.pc = "queued", !.retries = @ + 1,
                                    !.stream_url = Null, !.output = NoOutput,
                                    !.exc = NoExc, !.dbok = @ /\ ~fault,
                                    !.lost = Lost(r, fault)])
                    ELSE Drop(tasks, t)
    /\ UNCHANGED <<nextId, nextTid, deleted, load>>

\* celery_app.py:20  task_time_limit=30 * 60: the worker kills the process
\* executing an attempt; nothing of the task runs after that.
time_limit(t) ==
    /\ t \in DOMAIN tasks
    /\ tasks[t].kind = "celery"
    /\ tasks[t].pc # "queued"
    /\ tasks' = Drop(tasks, t)
    /\ UNCHANGED <<store, nextId, nextTid, faults, deleted, load>>

\* ---------------------------------------------------------- specification
Next ==
    \/ \E body \in Bodies : create_project(body)
    \/ \E p \in PIDS, brokerUp \in BOOLEAN : start_project(p, brokerUp)
    \/ \E p \in PIDS : stop_project(p)
    \/ \E p \in PIDS : delete_project(p)
    \/ \E t \in TIDS : simulate_workflow(t)
    \/ \E t \in TIDS : attempt_start(t)
    \/ \E t \in TIDS : fetch_project(t)
    \/ \E t \in TIDS : create_task(t)
    \/ \E t \in TIDS : update_session(t)
    \/ \E t \in TIDS : complete(t)
    \/ \E t \in TIDS : handle_output(t)
    \/ \E t \in TIDS : blocked_result(t)
    \/ \E t \in TIDS : finish(t)
    \/ \E t \in TIDS : handle_failure(t)
    \/ \E t \in TIDS : time_limit(t)

Spec == Init /\ [][Next]_vars

\* The worker's scheduling: a worker takes every task that stays queued
\* (first delivery, or a retry after its countdown) and runs each statement of
\* an execution it has begun; a gateway call returns or raises; the event
\* loop resumes simulate_workflow after its sleep.  Clients owe no call, and
\* the time limit need not strike.
Worker(t) ==
    \/ attempt_start(t) \/ fetch_project(t) \/ create_task(t)
    \/ update_session(t) \/ complete(t) \/ handle_output(t)
    \/ blocked_result(t) \/ finish(t) \/ handle_failure(t)
    \/ simulate_workflow(t)

\* A run enables one statement at a time, so fairness to the run is fairness
\* to each of its statements.
Fairness == \A t \in TIDS : WF_vars(Worker(t))

\* The loads explored under fairness.
FairLoads == {b \in Loads : b.tasks <= MaxFairTasks}

FairInit == Init /\ load \in FairLoads

FairSpec == FairInit /\ [][Next]_vars /\ Fairness

\* ------------------------------------------------------------- properties
\* A run that has met no stop, delete or other run on its project and no
\* store fault, taking a step in which the store does not raise either.
Undisturbed(t) == tasks[t].alone /\ tasks[t].dbok /\ faults' = faults

CeleryRuns(p) == {t \in DOMAIN tasks : tasks[t].kind = "celery" /\ tasks[t].pid = p}

\* C1: when a run whose gateway output contains "BLOCKED" in any letter case
\* returns, undisturbed by stop, delete or another run, the persisted status is
\* BLOCKED and the persisted last_result has status BLOCKED.
C1_BlockedRunEndsBlocked ==
    [][\A t \in TIDS :
        (finish(t) /\ IsBlocked(tasks[t].output) /\ Undisturbed(t)) =>
            LET p == tasks[t].pid IN
            /\ p \in DOMAIN store'
            /\ store'[p].status = "BLOCKED"
            /\ store'[p].last_result.status = "BLOCKED"]_vars

\* C2: a start call on a project whose persisted status is RUNNING answers 400,
\* changes no project record and enqueues nothing.
C2_StartWhileRunningRejected ==
    /\ [](\A p \in PIDS, b \in BOOLEAN :
            (Exists(p) /\ store[p].status = "RUNNING") =>
                start_response(p, b).code = InvalidState)
    /\ [][\A p \in PIDS, b \in BOOLEAN :
            (Exists(p) /\ store[p].status = "RUNNING" /\ start_project(p, b)) =>
                (store' = store /\ tasks' = tasks /\ nextTid' = nextTid)]_vars

\* C2 witness: a project is RUNNING while its run is in progress, and a start
\* call on it is answered 400.
C2_Witness ==
    \E p \in PIDS :
        /\ Exists(p) /\ store[p].status = "RUNNING"
        /\ CeleryRuns(p) # {}
        /\ start_response(p, TRUE).code = InvalidState

\* C3: at most one Coordinator run (enqueued, executing or waiting for its
\* retry) is active for a project id.
C3_OneActiveRunPerProject ==
    \A p \in PIDS : Cardinality(CeleryRuns(p)) <= 1

C7_SuccessfulRunPersistsResult ==
    [][\A t \in TIDS :
        (finish(t) /\ ~IsBlocked(tasks[t].output) /\ Undisturbed(t)) =>
            LET p == tasks[t].pid IN
            /\ p \in DOMAIN store'
            /\ store'[p].status = "IDLE"
            /\ store'[p].last_result.status = "COMPLETED"
            /\ store'[p].last_run_at # Null
            /\ store'[p].last_run_at = store'[p].last_result.at]_vars

\* C8: the state a stop call commits for an existing project, whatever its
\* status and whether or not a run is in flight, has status IDLE,
\* active_session_id null and live_stream_url null.
C8_StopYieldsIdleAndClearsSession ==
    [][\A p \in PIDS :
        (Exists(p) /\ stop_project(p)) =>
            /\ stop_response(p) = Ok
            /\ p \in DOMAIN store'
            /\ store'[p].status = "IDLE"
            /\ store'[p].active_session_id = Null
            /\ store'[p].live_stream_url = Null]_vars

\* C8 witness: a run that has written its session and stream URL is waiting on
\* the gateway, and a stop call has since left the row IDLE with both cleared.
C8_Witness ==
    \E t \in DOMAIN tasks :
        /\ Celery(t, "wait") /\ tasks[t].dbok /\ ~tasks[t].alone
        /\ tasks[t].stream_url # Null
        /\ Exists(tasks[t].pid)
        /\ store[tasks[t].pid].status = "IDLE"
        /\ store[tasks[t].pid].active_session_id = Null
        /\ store[tasks[t].pid].live_stream_url = Null

\* C9: when the enqueue fails inside start, start answers with an error,
\* starts no execution and leaves the project record unchanged.
C9_EnqueueFailureIsAnError ==
    [][\A p \in PIDS :
        (Exists(p) /\ ~AlreadyRunning(store[p]) /\ start_project(p, FALSE)) =>
            /\ start_response(p, FALSE).code # Ok
            /\ store' = store
            /\ tasks' = tasks]_vars

\* C10: after delete succeeded for a project id, get, start, stop and delete
\* on that id answer 404 in every later state, also while a run enqueued
\* before the delete is executing or retrying.
C10_DeletedStaysNotFound ==
    \A p \in deleted :
        /\ get_project(p) = NotFound
        /\ \A b \in BOOLEAN : start_response(p, b).code = NotFound
        /\ stop_response(p) = NotFound
        /\ delete_response(p) = NotFound

\* C10 witness: the project was deleted, and its run, enqueued before, has
\* since failed an execution and is in a retry.
C10_Witness ==
    \E t \in DOMAIN tasks :
        /\ tasks[t].pid \in deleted
        /\ tasks[t].kind = "celery"
        /\ tasks[t].retries >= 1
        /\ tasks[t].pc = "fetch"
        /\ get_project(tasks[t].pid) = NotFound

\* The celery runs whose project a delete call removed.
Orphans == {t \in DOMAIN tasks : tasks[t].kind = "celery" /\ tasks[t].pid \in deleted}

\* C11: every write a run attempts after its project was deleted, at whatever
\* point of the run, is a no-op: the store is left as it was (no record is
\* created, no other project's record changes) and the helper raises nothing,
\* the run going on to its next statement.
C11_WritesAfterDeleteAreNoOps ==
    [][\A t \in Orphans :
        /\ (\/ attempt_start(t) \/ update_session(t) \/ handle_output(t)
            \/ blocked_result(t) \/ finish(t) \/ handle_failure(t)) =>
              store' = store
        /\ attempt_start(t) =>
              (tasks'[t].pc = "fetch" /\ tasks'[t].exc = tasks[t].exc)
        /\ update_session(t) =>
              (tasks'[t].pc = "wait" /\ tasks'[t].exc = tasks[t].exc)
        /\ handle_output(t) =>
              (tasks'[t].pc \in {"blocked_result", "finish"}
                  /\ tasks'[t].exc = tasks[t].exc)
        /\ blocked_result(t) =>
              (tasks'[t].pc = "finish" /\ tasks'[t].exc = tasks[t].exc)]_vars

\* C11 witness: the project was deleted after the run fetched it; the run's
\* session write has since found no row, and the run is waiting on the gateway.
C11_Witness ==
    \E t \in Orphans :
        /\ tasks[t].lost /\ tasks[t].pc = "wait"
        /\ tasks[t].pid \notin DOMAIN store

\* C12: in every reachable state the persisted status of every project is one
\* of INITIALIZING, IDLE, RUNNING, BLOCKED.
C12_StatusIsOneOfFour ==
    \A p \in DOMAIN store : store[p].status \in Statuses

\* C12 witness: a failed execution has written BLOCKED and the run waits for
\* its retry.
C12_Witness ==
    \E p \in DOMAIN store :
        /\ store[p].status = "BLOCKED"
        /\ \E t \in CeleryRuns(p) : tasks[t].pc = "queued" /\ tasks[t].retries >= 1

\* C13: whenever a project's status is IDLE and no run of it is in progress,
\* its active_session_id is null; in particular the write of IDLE that ends an
\* undisturbed run leaves active_session_id null.
C13_IdleHasNoSession ==
    /\ [](\A p \in DOMAIN store :
            (store[p].status = "IDLE" /\ RunsOf(p) = {}) =>
                store[p].active_session_id = Null)
    /\ [][\A t \in TIDS :
            (finish(t) /\ Undisturbed(t)) =>
                store'[tasks[t].pid].active_session_id = Null]_vars

\* C14: create with an empty system_prompt adds no record; every record that
\* create adds has a non-empty system_prompt and status INITIALIZING.
C14_EmptyPromptRejected ==
    [][\A body \in Bodies :
        create_project(body) =>
            /\ body.system_prompt = "" => store' = store
            /\ \A p \in DOMAIN store' \ DOMAIN store :
                  /\ store'[p].system_prompt # ""
                  /\ store'[p].status = "INITIALIZING"]_vars

\* C15: get on the id a create call returned, with no operation in between,
\* answers 200 with the system_prompt and output_schema the create call was
\* given.
C15_CreateGetRoundTrip ==
    [][\A body \in Bodies :
        create_project(body) =>
            LET r == GetResponse(store', nextId) IN
            /\ r.code = Ok
            /\ r.system_prompt = body.system_prompt
            /\ r.output_schema = body.output_schema]_vars

C17_FailureWritesErrorResult ==
    [][\A t \in TIDS :
        (handle_failure(t) /\ Undisturbed(t)) =>
            LET p == tasks[t].pid IN
            /\ p \in DOMAIN store'
            /\ store'[p].status = "BLOCKED"
            /\ store'[p].last_result # NoResult
            /\ store'[p].last_result.output = tasks[t].exc]_vars

\* C18: an execution that fetches a project whose record is absent fails with
\* "not found": the store is unchanged, the execution goes to the except branch
\* and from there never to the gateway; the except branch creates no record
\* and either reschedules the run or returns the failed summary (never lets the
\* exception out), and after the fourth such execution it returns the failed
\* summary carrying "not found".
C18_AbsentProjectFailsRun ==
    [][\A t \in TIDS :
        /\ (fetch_project(t) /\ ~Exists(tasks[t].pid)) =>
              /\ store' = store
              /\ t \in DOMAIN tasks'
              /\ tasks'[t].pc = "failed"
              /\ tasks'[t].exc.kind = "not found"
        /\ (Celery(t, "failed") /\ t \in DOMAIN tasks') =>
              tasks'[t].pc \in {"failed", "queued"}
        /\ (handle_failure(t) /\ tasks[t].exc.kind = "not found"
                /\ ~Exists(tasks[t].pid)) =>
              /\ store' = store
              /\ Disposition(tasks[t]) \in {"retry", "return failed"}
              /\ Disposition(tasks[t]) = "retry" =>
                    (t \in DOMAIN tasks' /\ tasks'[t].pc = "queued")
              /\ tasks[t].attempts = 4 =>
                    /\ Disposition(tasks[t]) = "return failed"
                    /\ t \notin DOMAIN tasks'
                    /\ FailedSummary(tasks[t]).status = "failed"
                    /\ FailedSummary(tasks[t]).error.kind = "not found"]_vars

\* C18 witness: the project was deleted between enqueue and execution; the
\* first execution has fetched no record and is in its except branch.
C18_Witness ==
    \E t \in Orphans :
        /\ Celery(t, "failed") /\ tasks[t].exc.kind = "not found"
        /\ tasks[t].attempts = 1 /\ tasks[t].retries = 0
        /\ faults = 0

\* What a run has done and will do: its fields without the history flags.
Progress(r) == [pid |-> r.pid, kind |-> r.kind, pc |-> r.pc, retries |-> r.retries,
                stream_url |-> r.stream_url, output |-> r.output, exc |-> r.exc]

\* The columns a stop call may change.
StopColumns == {"status", "active_session_id", "live_stream_url"}

\* C19: a stop call changes only status, active_session_id and live_stream_url
\* of the project it names; the other columns of that project, every other
\* project, the set of projects, the task queue and the progress of every run
\* (also of that project's own run in flight) are unchanged; a stop call on an
\* absent id changes nothing.
C19_StopChangesOnlyThreeColumns ==
    [][\A p \in PIDS :
        stop_project(p) =>
            /\ DOMAIN store' = DOMAIN store
            /\ \A q \in DOMAIN store \ {p} : store'[q] = store[q]
            /\ Exists(p) =>
                  \A c \in DOMAIN store[p] \ StopColumns : store'[p][c] = store[p][c]
            /\ ~Exists(p) => store' = store
            /\ DOMAIN tasks' = DOMAIN tasks
            /\ \A t \in DOMAIN tasks : Progress(tasks'[t]) = Progress(tasks[t])
            /\ nextTid' = nextTid /\ nextId' = nextId]_vars

\* C19 witness: a run that had committed its session id has been stopped (the
\* session id is null again) and has gone on to receive the gateway's output;
\* the project still carries its creation values.
C19_Witness ==
    \E t \in DOMAIN tasks :
        /\ Celery(t, "inspect") /\ tasks[t].dbok /\ ~tasks[t].alone
        /\ Cardinality(DOMAIN tasks) = 1 /\ nextTid = 2
        /\ Exists(tasks[t].pid)
        /\ store[tasks[t].pid].status = "IDLE"
        /\ store[tasks[t].pid].active_session_id = Null
        /\ store[tasks[t].pid].system_prompt = "extract invoice totals"
        /\ store[tasks[t].pid].output_schema = "schema"

\* C20: in every reachable state, for every project, live_stream_url non-null
\* implies active_session_id non-null; a step that sets a stream URL leaves a
\* session id set, and a step that clears the session id clears the stream URL.
C20_StreamImpliesSession ==
    /\ [](\A p \in DOMAIN store :
            store[p].live_stream_url # Null => store[p].active_session_id # Null)
    /\ [][\A p \in DOMAIN store \cap DOMAIN store' :
            /\ (store'[p].live_stream_url # store[p].live_stream_url
                    /\ store'[p].live_stream_url # Null) =>
                  store'[p].active_session_id # Null
            /\ (store'[p].active_session_id = Null
                    /\ store[p].active_session_id # Null) =>
                  store'[p].live_stream_url = Null]_vars

\* C20 witness: a project carries the stream URL and the session id its run
\* wrote, and the run has received the gateway's output.
C20_Witness ==
    \E p \in DOMAIN store :
        /\ store[p].live_stream_url # Null
        /\ store[p].active_session_id # Null
        /\ \E t \in CeleryRuns(p) : tasks[t].pc = "inspect"

\* C21: while a project's record exists no step changes its system_prompt or
\* output_schema, and the record stays under the id create gave it: an id is
\* handed out once, and a record that is gone does not come back.
C21_ConfigImmutableAfterCreate ==
    /\ [][\A p \in DOMAIN store \cap DOMAIN store' :
            /\ store'[p].system_prompt = store[p].system_prompt
            /\ store'[p].output_schema = store[p].output_schema]_vars
    /\ [][\A p \in DOMAIN store' \ DOMAIN store :
            p = nextId /\ nextId' > nextId /\ p \notin deleted]_vars

\* C21 witness: a project created with a prompt and a schema has been through
\* a whole run (its result written, its session id stored, IDLE at the end)
\* and still carries both.
C21_Witness ==
    \E p \in DOMAIN store :
        /\ store[p].system_prompt = "extract invoice totals"
        /\ store[p].output_schema = "schema"
        /\ store[p].status = "IDLE"
        /\ store[p].active_session_id = SessionId(1)
        /\ RunsOf(p) = {} /\ nextTid = 2

\* C22: under the worker's fair scheduling every enqueued run ends: it leaves
\* the queue for good, after at most 4 executions (3 retries), and the step
\* that ends it is the return of the completed summary, the return of the
\* failed summary, or the worker's time limit killing an execution.
C22_EveryRunTerminates ==
    /\ \A t \in TIDS :
          (t \in DOMAIN tasks /\ tasks[t].kind = "celery") ~> (t \notin DOMAIN tasks)
    /\ [](\A t \in DOMAIN tasks : tasks[t].retries <= MaxRetries
                                     /\ tasks[t].attempts <= MaxRetries + 1)
    /\ [][\A t \in TIDS :
            (t \in DOMAIN tasks /\ tasks[t].kind = "celery" /\ t \notin DOMAIN tasks') =>
                \/ finish(t)
                \/ handle_failure(t) /\ Disposition(tasks[t]) = "return failed"
                \/ time_limit(t)]_vars

\* C22 witness: a run that failed three executions is in its fourth, which has
\* succeeded and is about to return the completed summary.
C22_Witness ==
    \E t \in DOMAIN tasks :
        Celery(t, "finish") /\ tasks[t].retries = MaxRetries /\ tasks[t].attempts = 4

\* C23: under the worker's fair scheduling, whenever a project's persisted
\* status is RUNNING, eventually the record is gone or its status is no longer
\* RUNNING.
C23_NeverRunningForever ==
    \A p \in PIDS :
        (Exists(p) /\ store[p].status = "RUNNING") ~>
            (~Exists(p) \/ store[p].status # "RUNNING")

=============================================================================
